---- MODULE Spec2Model ----
(***************************************************************************)
(* Accrual reconciliation of ar4ie13/loyaltysystem: the orders and users   *)
(* tables (internal/repository/db/postgresql/db.go), the order submission  *)
(* path (internal/service/service.go) and the poller with its workers      *)
(* (internal/requestor/requestor.go).                                      *)
(*                                                                         *)
(* Every SQL statement is run with pool.Exec / pool.QueryRow outside any   *)
(* transaction, so each statement commits on its own and is one step of    *)
(* the model. Money is float64 in the code; the model uses integers.       *)
(*                                                                         *)
(* The poller's Repository interface names UpdateOrderWithoutAccrual and   *)
(* UpdateOrderWithAccrual; the store's update is DB.UpdateOrder(orderNum,  *)
(* status, accrual), which branches on accrual == 0. The model runs both   *)
(* calls through DB.UpdateOrder, the first with accrual 0.                 *)
(***************************************************************************)
EXTENDS Integers, Sequences, FiniteSets, TLC

\* ------------------------------------------------------------------ bounds
\* r.conf.WorkerNum (runtime.NumCPU() on the host)
WorkerNum == 2
\* the non-zero accrual a verdict may carry
MaxAccrual == 2
\* times the balance may be credited for one order before the model stops
MaxCredits == 2
\* concurrent withdrawal requests
MaxReqs == 2
\* length of the strings given to the validator
MaxLen == 3

\* ------------------------------------------------------- program constants
\* const pollSleepTime = 1 * time.Second, in seconds
pollSleepTime == 1

\* SQL NULL / a nil *float64
NULL == -1

\* the poller instances that may run against the store
Pollers == {1, 2}
Users == {"u1", "u2"}
\* uuid.Nil
NilUUID == "nil"

Workers == 1..WorkerNum

\* order numbers as strings of characters
N18 == <<"1", "8">>
N26 == <<"2", "6">>
N12 == <<"1", "2">>
N34 == <<"3", "4">>
\* the numbers users submit: two pass the checksum, one does not
SubmitNums == {N18, N26, N12}
\* every number an order row may hold
OrderNums == SubmitNums \cup {N34}
\* json zero value of AccrualResponse.OrderNumber
EmptyNum == <<>>

DigitChars == {"0", "1", "2", "3", "4", "5", "6", "7", "8", "9"}

DigitVal(c) ==
    CASE c = "0" -> 0 [] c = "1" -> 1 [] c = "2" -> 2 [] c = "3" -> 3
      [] c = "4" -> 4 [] c = "5" -> 5 [] c = "6" -> 6 [] c = "7" -> 7
      [] c = "8" -> 8 [] c = "9" -> 9

\* ------------------------------------------------------------- validator
\* the loop of checkOrderNumber over digits[i], i from len-1 down to 0
RECURSIVE LuhnSum(_, _, _)
LuhnSum(order, i, isSecond) ==
    IF i = 0 THEN 0
    ELSE LET d == DigitVal(order[i])
             dd == IF isSecond
                   THEN (IF d * 2 > 9 THEN d * 2 - 9 ELSE d * 2)
                   ELSE d
         IN dd + LuhnSum(order, i - 1, ~isSecond)

\* mutant: isSecond starts true, the rightmost digit is doubled
checkOrderNumber_DoubleFirst(order) ==
    IF Len(order) < 2 THEN FALSE
    ELSE IF \E i \in 1..Len(order) : order[i] \notin DigitChars THEN FALSE
    ELSE LuhnSum(order, Len(order), TRUE) % 10 = 0

\* mutant: without the len(order) < 2 return
checkOrderNumber_AnyLength(order) ==
    IF \E i \in 1..Len(order) : order[i] \notin DigitChars THEN FALSE
    ELSE LuhnSum(order, Len(order), FALSE) % 10 = 0

checkOrderNumber(order) ==
    IF Len(order) < 2 THEN FALSE
    ELSE IF \E i \in 1..Len(order) : order[i] \notin DigitChars THEN FALSE
    ELSE LuhnSum(order, Len(order), FALSE) % 10 = 0

\* ------------------------------------------------------------ strconv.Atoi
RECURSIVE DecVal(_)
DecVal(s) ==
    IF Len(s) = 0 THEN 0
    ELSE DecVal(SubSeq(s, 1, Len(s) - 1)) * 10 + DigitVal(s[Len(s)])

\* value and error of strconv.Atoi: an optional sign, then digits only
Atoi(s) ==
    LET signed == Len(s) > 0 /\ s[1] \in {"+", "-"}
        body == IF signed THEN Tail(s) ELSE s
    IN IF Len(body) = 0 \/ \E i \in 1..Len(body) : body[i] \notin DigitChars
       THEN [val |-> 0, err |-> TRUE]
       ELSE [val |-> IF signed /\ s[1] = "-" THEN 0 - DecVal(body) ELSE DecVal(body),
             err |-> FALSE]

\* ----------------------------------------------------- the accrual service
\* Retry-After header values: absent, not a number, and two numbers of seconds
RetryHeaders == {<<>>, <<"x">>, <<"2">>, <<"3">>}

AccrualVals == {0, MaxAccrual}

\* 200 bodies: status in {REGISTERED, PROCESSING, INVALID, PROCESSED}, accrual
\* present only with PROCESSED
Verdicts ==
    {[status |-> s, accrual |-> NULL] :
        s \in {"REGISTERED", "PROCESSING", "INVALID", "PROCESSED"}}
    \cup {[status |-> "PROCESSED", accrual |-> a] : a \in AccrualVals}

\* kinds of 200 body: well formed; not JSON at all; JSON whose accrual has the
\* wrong type
BodyKinds == {"json", "garbage", "badtype"}

\* json.Unmarshal into a zero AccrualResponse: a syntax error leaves the zero
\* value, a type error on accrual leaves accrual nil and fills the other fields
Unmarshal(kind, num, v) ==
    CASE kind = "json" ->
            [OrderNumber |-> num, Status |-> v.status, Accrual |-> v.accrual,
             err |-> FALSE]
      [] kind = "badtype" ->
            [OrderNumber |-> num, Status |-> v.status, Accrual |-> NULL,
             err |-> TRUE]
      [] OTHER ->
            [OrderNumber |-> EmptyNum, Status |-> "", Accrual |-> NULL,
             err |-> TRUE]

\* --------------------------------------------------------------- the store
\* rows of the orders table in created_at order; accrual is NULL until written
OrderRow(num, status, user) ==
    [order_num |-> num, status |-> status, accrual |-> NULL, user_uuid |-> user,
     withdrawn |-> NULL]

\* the rows WHERE order_num = num
RowsOf(os, num) == {i \in 1..Len(os) : os[i].order_num = num}

\* SELECT user_uuid FROM orders WHERE order_num = $1 (uuid.Nil on pgx.ErrNoRows)
OwnerOf(os, num) ==
    IF RowsOf(os, num) = {} THEN NilUUID
    ELSE os[CHOOSE i \in RowsOf(os, num) : TRUE].user_uuid

\* UPDATE orders SET status = $1 WHERE order_num = $2
UpdateStatus(os, num, status) ==
    [i \in 1..Len(os) |->
        IF os[i].order_num = num THEN [os[i] EXCEPT !.status = status] ELSE os[i]]

\* UPDATE orders SET accrual = $1, status = $2 WHERE order_num = $3
UpdateAccrual(os, num, status, accrual) ==
    [i \in 1..Len(os) |->
        IF os[i].order_num = num
        THEN [os[i] EXCEPT !.status = status, !.accrual = accrual]
        ELSE os[i]]

\* the users rows WHERE uuid = (SELECT user_uuid from orders where order_num = $3)
UsersOf(os, num) == {u \in Users : u = OwnerOf(os, num)}

\* mutant: UPDATE users SET balance = balance + $1, without its WHERE clause
UpdateBalance_EveryUser(us, os, num, accrual) ==
    [u \in Users |-> [us[u] EXCEPT !.balance = @ + accrual]]

\* UPDATE users SET balance = balance + $1 WHERE uuid = (SELECT ...)
UpdateBalance(us, os, num, accrual) ==
    [u \in Users |->
        IF u \in UsersOf(os, num)
        THEN [us[u] EXCEPT !.balance = @ + accrual]
        ELSE us[u]]

\* the first n elements of a sequence
Take(s, n) == SubSeq(s, 1, IF n < Len(s) THEN n ELSE Len(s))

\* mutant: WHERE status IN ('NEW', 'PROCESSING', 'REGISTERED')
RECURSIVE PendingNums_WithRegistered(_, _)
PendingNums_WithRegistered(os, i) ==
    IF i > Len(os) THEN <<>>
    ELSE (IF os[i].status \in {"NEW", "PROCESSING", "REGISTERED"}
          THEN <<os[i].order_num>> ELSE <<>>)
         \o PendingNums_WithRegistered(os, i + 1)

\* the order_num of the rows i.. whose status is NEW or PROCESSING
RECURSIVE PendingNums(_, _)
PendingNums(os, i) ==
    IF i > Len(os) THEN <<>>
    ELSE (IF os[i].status \in {"NEW", "PROCESSING"}
          THEN <<os[i].order_num>> ELSE <<>>) \o PendingNums(os, i + 1)

\* the last n elements of a sequence, last first
RECURSIVE TakeLast(_, _)
TakeLast(s, n) ==
    IF n = 0 \/ Len(s) = 0 THEN <<>>
    ELSE <<s[Len(s)]>> \o TakeLast(SubSeq(s, 1, Len(s) - 1), n - 1)

\* mutant: the first pending number, returned limit times
GetUnprocessedOrders_Repeat(os, limit) ==
    IF PendingNums(os, 1) = <<>> THEN <<>>
    ELSE [k \in 1..limit |-> PendingNums(os, 1)[1]]

\* mutant: ORDER BY created_at DESC
GetUnprocessedOrders_NewestFirst(os, limit) == TakeLast(PendingNums(os, 1), limit)

RECURSIVE AllNums(_, _)
AllNums(os, i) ==
    IF i > Len(os) THEN <<>> ELSE <<os[i].order_num>> \o AllNums(os, i + 1)

\* mutant: the query without its WHERE status IN (...) clause
GetUnprocessedOrders_AnyStatus(os, limit) == Take(AllNums(os, 1), limit)

\* SELECT order_num FROM orders WHERE status IN ('NEW', 'PROCESSING')
\* ORDER BY created_at ASC LIMIT $1
GetUnprocessedOrders(os, limit) == Take(PendingNums(os, 1), limit)

\* ------------------------------------------------------------------ state
VARIABLES
    env,         \* the deployment: poller instances started, the users who
                 \* submit, the numbers they submit, and whether the accrual
                 \* service answers with the number it was asked for
    orders,      \* the orders table
    users,       \* the users table: balance and withdrawn of each user
    put,         \* each user's PutUserOrder call in progress
    loop,        \* each poller's StartWorkers loop: position and sleep left
    rorders,     \* r.orders
    retryAfter,  \* r.retryAfter
    cancelled,   \* whether the batch's ctx is done
    wk,          \* the executeRequestWorker goroutines of each poller
    credits,     \* history: times the balance was credited for each order
    batch,       \* history of the current batch of each poller
    wd,          \* the PutUserWithdrawnOrder calls: position, arguments, result
    ret          \* history: each user's last PutUserOrder call, its number and
                 \* what it returned

vars == <<env, orders, users, put, loop, rorders, retryAfter,
          cancelled, wk, credits, batch, wd, ret>>

\* the withdrawal requests that may be in progress together
Reqs == 1..MaxReqs

\* a withdrawal request not yet made
NoCall == [pc |-> "idle", user |-> NilUUID, num |-> EmptyNum, sum |-> 0, ret |-> ""]

\* a goroutine that is not running
NoWorker ==
    [pc |-> "none", num |-> EmptyNum, status |-> "", accrual |-> NULL,
     got |-> "", calls |-> <<>>, err |-> FALSE, wrote |-> FALSE, bal0 |-> 0,
     bad |-> FALSE]

\* a goroutine just started by `go r.executeRequestWorker(...)`
NewWorker == [NoWorker EXCEPT !.pc = "start"]

\* history of a batch: the Retry-After headers of its 429 answers, in the order
\* they were handled, and the seconds slept since its join
NoBatch == [hdrs |-> <<>>, elapsed |-> 0]

InitStore ==
    /\ orders = <<>>
    /\ users = [u \in Users |-> [balance |-> 0, withdrawn |-> 0]]
    /\ put = [u \in Users |-> [pc |-> "idle", num |-> EmptyNum]]
    /\ credits = [n \in OrderNums |-> 0]

\* no service call made yet
InitCalls ==
    /\ wd = [r \in Reqs |-> NoCall]
    /\ ret = [u \in Users |-> [num |-> EmptyNum, err |-> "no call"]]

\* NewRequestor: orders empty, retryAfter 0, and `go r.StartWorkers()`
InitPollers ==
    /\ loop = [p \in Pollers |-> [pc |-> "fetch", sleepLeft |-> 0]]
    /\ rorders = [p \in Pollers |-> <<>>]
    /\ retryAfter = [p \in Pollers |-> 0]
    /\ cancelled = [p \in Pollers |-> FALSE]
    /\ wk = [p \in Pollers |-> [id \in Workers |-> NoWorker]]
    /\ batch = [p \in Pollers |-> NoBatch]

\* main.run: one requestor.NewRequestor
Init ==
    /\ env = [instances |-> {1}, users |-> Users, nums |-> SubmitNums,
              honest |-> TRUE]
    /\ InitStore
    /\ InitPollers
    /\ InitCalls

\* two processes of the service against one database, one user submitting
\* one number
InitTwo ==
    /\ env = [instances |-> Pollers, users |-> {"u1"}, nums |-> {N18},
              honest |-> TRUE]
    /\ InitStore
    /\ InitPollers
    /\ InitCalls

\* the service started on a database that holds two orders of one user, who
\* then submits a third: more pending orders than a batch holds
InitMany ==
    /\ env = [instances |-> {1}, users |-> {"u1"}, nums |-> {N34},
              honest |-> TRUE]
    /\ orders = <<OrderRow(N18, "NEW", "u1"), OrderRow(N26, "NEW", "u1")>>
    /\ users = [u \in Users |-> [balance |-> 0, withdrawn |-> 0]]
    /\ put = [u \in Users |-> [pc |-> "idle", num |-> EmptyNum]]
    /\ credits = [n \in OrderNums |-> 0]
    /\ InitPollers
    /\ InitCalls

\* the service started on a database that holds one order of a user, who then
\* submits a second
InitLive ==
    /\ env = [instances |-> {1}, users |-> {"u1"}, nums |-> {N26},
              honest |-> TRUE]
    /\ orders = <<OrderRow(N18, "NEW", "u1")>>
    /\ users = [u \in Users |-> [balance |-> 0, withdrawn |-> 0]]
    /\ put = [u \in Users |-> [pc |-> "idle", num |-> EmptyNum]]
    /\ credits = [n \in OrderNums |-> 0]
    /\ InitPollers
    /\ InitCalls

\* the service started on a database that holds order 18 of u1, while u2
\* submits order 26; the accrual service may answer a lookup with a body that
\* carries either number
InitWrongBody ==
    /\ env = [instances |-> {1}, users |-> {"u2"}, nums |-> {N26},
              honest |-> FALSE]
    /\ orders = <<OrderRow(N18, "NEW", "u1")>>
    /\ users = [u \in Users |-> [balance |-> 0, withdrawn |-> 0]]
    /\ put = [u \in Users |-> [pc |-> "idle", num |-> EmptyNum]]
    /\ credits = [n \in OrderNums |-> 0]
    /\ InitPollers
    /\ InitCalls

storeVars == <<orders, users, credits>>
pollerVars == <<loop, rorders, retryAfter, cancelled, wk, batch>>
envVars == <<env, wd, ret>>

\* ------------------------------------------------------- order submission
\* Service.PutUserOrder, then the SELECT of DB.PutUserOrder: a number failing the
\* checksum is ErrIncorrectOrderNumber, a stored one ErrOrderNumberAlreadyUsed
\* or ErrOrderAlreadyExists; otherwise the call goes on to its INSERT
PutUserOrderSelect(u, num) ==
    /\ put[u].pc = "idle"
    /\ put' = IF checkOrderNumber(num) /\ OwnerOf(orders, num) = NilUUID
              THEN [put EXCEPT ![u] = [pc |-> "insert", num |-> num]]
              ELSE put
    /\ UNCHANGED <<storeVars, pollerVars, envVars>>

\* mutant: INSERT ... ON CONFLICT (order_num) DO UPDATE SET user_uuid
PutUserOrderInsert_TakeOver(u) ==
    /\ put[u].pc = "insert"
    /\ orders' = IF RowsOf(orders, put[u].num) = {}
                 THEN Append(orders, OrderRow(put[u].num, "NEW", u))
                 ELSE [i \in 1..Len(orders) |->
                         IF orders[i].order_num = put[u].num
                         THEN [orders[i] EXCEPT !.user_uuid = u] ELSE orders[i]]
    /\ put' = [put EXCEPT ![u] = [pc |-> "idle", num |-> EmptyNum]]
    /\ UNCHANGED <<users, credits, pollerVars, envVars>>

\* mutant: INSERT ... ON CONFLICT (order_num) DO UPDATE SET status = 'INVALID'
PutUserOrderInsert_Invalidate(u) ==
    /\ put[u].pc = "insert"
    /\ orders' = IF RowsOf(orders, put[u].num) = {}
                 THEN Append(orders, OrderRow(put[u].num, "NEW", u))
                 ELSE UpdateStatus(orders, put[u].num, "INVALID")
    /\ put' = [put EXCEPT ![u] = [pc |-> "idle", num |-> EmptyNum]]
    /\ UNCHANGED <<users, credits, pollerVars, envVars>>

\* the INSERT of DB.PutUserOrder: order_num is UNIQUE, so a number stored
\* meanwhile makes the statement fail
PutUserOrderInsert(u) ==
    /\ put[u].pc = "insert"
    /\ orders' = IF RowsOf(orders, put[u].num) = {}
                 THEN Append(orders, OrderRow(put[u].num, "NEW", u))
                 ELSE orders
    /\ put' = [put EXCEPT ![u] = [pc |-> "idle", num |-> EmptyNum]]
    /\ UNCHANGED <<users, credits, pollerVars, envVars>>

\* ------------------------------------------------------ the control loop
\* time.Sleep(d): the loop sleeps d seconds, then starts its next cycle
Sleeping(d) == [pc |-> "sleep", sleepLeft |-> d]

\* mutant: the loop goes on without wg.Wait
Joined_NoWait(p) == TRUE

\* mutant: wg.Wait returns when the first worker is done
Joined_First(p) == wk[p][1].pc = "done"

\* mutant: wg.Add(r.conf.WorkerNum) whatever the length of r.orders
Joined_AllWorkers(p) == \A id \in Workers : wk[p][id].pc = "done"

\* the workers of a batch have all called wg.Done
Joined(p) == \A id \in 1..Len(rorders[p]) : wk[p][id].pc = "done"

\* mutant: r.orders keeps the earlier list when the fetch fails
Fetch_KeepOnError(p) ==
    /\ loop[p].pc = "fetch"
    /\ \E ok \in BOOLEAN :
        LET got == IF ok THEN GetUnprocessedOrders(orders, WorkerNum) ELSE rorders[p]
        IN /\ rorders' = [rorders EXCEPT ![p] = got]
           /\ cancelled' = [cancelled EXCEPT ![p] = FALSE]
           /\ batch' = [batch EXCEPT ![p] = NoBatch]
           /\ wk' = [wk EXCEPT ![p] =
                        [id \in Workers |->
                            IF id <= Len(got) THEN NewWorker ELSE NoWorker]]
           /\ loop' = [loop EXCEPT ![p] =
                        IF Len(got) = 0 THEN Sleeping(pollSleepTime)
                        ELSE [pc |-> "wait", sleepLeft |-> 0]]
    /\ UNCHANGED <<storeVars, put, retryAfter, envVars>>

\* mutant: ctx and cancel are made once, before the for loop
Fetch_OneCtx(p) ==
    /\ loop[p].pc = "fetch"
    /\ \E ok \in BOOLEAN :
        LET got == IF ok THEN GetUnprocessedOrders(orders, WorkerNum) ELSE <<>>
        IN /\ rorders' = [rorders EXCEPT ![p] = got]
           /\ batch' = [batch EXCEPT ![p] = NoBatch]
           /\ wk' = [wk EXCEPT ![p] =
                        [id \in Workers |->
                            IF id <= Len(got) THEN NewWorker ELSE NoWorker]]
           /\ loop' = [loop EXCEPT ![p] =
                        IF Len(got) = 0 THEN Sleeping(pollSleepTime)
                        ELSE [pc |-> "wait", sleepLeft |-> 0]]
    /\ UNCHANGED <<storeVars, put, retryAfter, cancelled, envVars>>

\* top of the for loop: a fresh ctx, GetUnprocessedOrders (r.orders is nil when
\* it fails), then either the sleep of the empty case or one goroutine per
\* element of r.orders
Fetch(p) ==
    /\ loop[p].pc = "fetch"
    /\ \E ok \in BOOLEAN :
        LET got == IF ok THEN GetUnprocessedOrders(orders, WorkerNum) ELSE <<>>
        IN /\ rorders' = [rorders EXCEPT ![p] = got]
           /\ cancelled' = [cancelled EXCEPT ![p] = FALSE]
           /\ batch' = [batch EXCEPT ![p] = NoBatch]
           /\ wk' = [wk EXCEPT ![p] =
                        [id \in Workers |->
                            IF id <= Len(got) THEN NewWorker ELSE NoWorker]]
           /\ loop' = [loop EXCEPT ![p] =
                        IF Len(got) = 0 THEN Sleeping(pollSleepTime)
                        ELSE [pc |-> "wait", sleepLeft |-> 0]]
    /\ UNCHANGED <<storeVars, put, retryAfter, envVars>>

\* mutant: the loop sleeps pollSleepTime whatever r.retryAfter holds
SleepTime_PollOnly(ra) == pollSleepTime

\* the seconds slept after a batch: time.Duration(r.retryAfter) * time.Second
\* when that is positive, pollSleepTime otherwise
SleepTime(ra) == IF ra > 0 THEN ra ELSE pollSleepTime

\* wg.Wait returns; cancel(); sleep
Join(p) ==
    /\ loop[p].pc = "wait"
    /\ Joined(p)
    /\ cancelled' = [cancelled EXCEPT ![p] = TRUE]
    /\ loop' = [loop EXCEPT ![p] =
                  Sleeping(SleepTime(retryAfter[p]))]
    /\ UNCHANGED <<storeVars, put, rorders, retryAfter, wk, batch, envVars>>

\* one second of a sleep passes; the loop starts over when none is left
Tick(p) ==
    /\ loop[p].pc = "sleep"
    /\ loop' = [loop EXCEPT ![p] =
                  IF loop[p].sleepLeft > 1
                  THEN Sleeping(loop[p].sleepLeft - 1)
                  ELSE [pc |-> "fetch", sleepLeft |-> 0]]
    /\ batch' = [batch EXCEPT ![p].elapsed = @ + 1]
    /\ UNCHANGED <<storeVars, put, rorders, retryAfter, cancelled, wk, envVars>>

\* ------------------------------------------------------------ the workers
\* mutant: the branch does not return and goes on to the store call
Finish_GoOn(w, how) == [w EXCEPT !.pc = "with", !.got = how]

\* the worker returns: how it ended is kept in got
Finish(w, how) == [w EXCEPT !.pc = "done", !.got = how]

\* a store call that returns an error: logged, return
Failed(w, call) == [w EXCEPT !.pc = "done", !.calls = Append(@, call), !.err = TRUE]

\* the select on ctx.Done() at the top of executeRequestWorker
WStart(p, id) ==
    /\ wk[p][id].pc = "start"
    /\ wk' = [wk EXCEPT ![p][id] =
                IF cancelled[p] THEN Finish(@, "aborted") ELSE [@ EXCEPT !.pc = "get"]]
    /\ UNCHANGED <<storeVars, put, loop, rorders, retryAfter, cancelled, batch, envVars>>

\* the order numbers a 200 body for a lookup of `asked` may carry
BodyNums(asked) == IF env.honest THEN {asked} ELSE {N18, N26}

\* client.R().Get fails: logged, return
GetError(p, id) ==
    /\ wk' = [wk EXCEPT ![p][id] = Finish(@, "error")]
    /\ UNCHANGED <<retryAfter, cancelled, batch>>

\* 200: the body is unmarshalled (an error is only logged, and kept in bad) and
\* the worker goes on to UpdateOrderWithoutAccrual when Accrual is nil, else to
\* UpdateOrderWithAccrual
Get200(p, id) ==
    /\ \E kind \in BodyKinds, v \in Verdicts, num \in BodyNums(rorders[p][id]) :
        LET resp == Unmarshal(kind, num, v)
        IN wk' = [wk EXCEPT ![p][id] =
                    [@ EXCEPT !.pc = IF resp.Accrual = NULL THEN "without" ELSE "with",
                              !.got = "200",
                              !.num = resp.OrderNumber,
                              !.status = resp.Status,
                              !.accrual = resp.Accrual,
                              !.bad = resp.err,
                              !.bal0 = IF OwnerOf(orders, rorders[p][id]) \in Users
                                       THEN users[OwnerOf(orders, rorders[p][id])].balance
                                       ELSE 0]]
    /\ UNCHANGED <<retryAfter, cancelled, batch>>

\* 204: logged, return
Get204(p, id) ==
    /\ wk' = [wk EXCEPT ![p][id] = Finish(@, "204")]
    /\ UNCHANGED <<retryAfter, cancelled, batch>>

\* 429: a non-empty Retry-After is parsed into r.retryAfter, and a parse error
\* returns before cancel(); otherwise cancel()
Get429(p, id) ==
    /\ \E h \in RetryHeaders :
        LET a == Atoi(h)
        IN /\ retryAfter' = IF h # <<>>
                            THEN [retryAfter EXCEPT ![p] = a.val]
                            ELSE retryAfter
           /\ cancelled' = IF h # <<>> /\ a.err
                           THEN cancelled
                           ELSE [cancelled EXCEPT ![p] = TRUE]
           /\ batch' = [batch EXCEPT ![p].hdrs = Append(@, h)]
    /\ wk' = [wk EXCEPT ![p][id] = Finish(@, "429")]

\* any other status: logged, return
GetOther(p, id) ==
    /\ wk' = [wk EXCEPT ![p][id] = Finish(@, "other")]
    /\ UNCHANGED <<retryAfter, cancelled, batch>>

\* client.R().Get(...) returns and the switch on resp.StatusCode() runs up to
\* the first store call
WGet(p, id) ==
    /\ wk[p][id].pc = "get"
    /\ \/ GetError(p, id)
       \/ Get200(p, id)
       \/ Get204(p, id)
       \/ Get429(p, id)
       \/ GetOther(p, id)
    /\ UNCHANGED <<storeVars, put, loop, rorders, envVars>>

\* mutant: the store call is given a context that is never done
UpdateOrderStatusOnly_NoCtx(p, id, call, next) ==
    LET w == wk[p][id]
    IN IF RowsOf(orders, w.num) = {}
       THEN /\ wk' = [wk EXCEPT ![p][id] = Failed(w, call)]
            /\ UNCHANGED orders
       ELSE /\ orders' = UpdateStatus(orders, w.num, w.status)
            /\ wk' = [wk EXCEPT ![p][id] =
                        [w EXCEPT !.pc = next, !.calls = Append(@, call)]]

\* DB.UpdateOrder, accrual == 0: one UPDATE of the status; an error when ctx is
\* done or no row was updated
UpdateOrderStatusOnly(p, id, call, next) ==
    LET w == wk[p][id]
    IN IF cancelled[p] \/ RowsOf(orders, w.num) = {}
       THEN /\ wk' = [wk EXCEPT ![p][id] = Failed(w, call)]
            /\ UNCHANGED orders
       ELSE /\ orders' = UpdateStatus(orders, w.num, w.status)
            /\ wk' = [wk EXCEPT ![p][id] =
                        [w EXCEPT !.pc = next, !.calls = Append(@, call)]]

\* r.repo.UpdateOrderWithoutAccrual(ctx, OrderNumber, Status); on an error the
\* worker returns, otherwise it falls through to UpdateOrderWithAccrual
WWithout(p, id) ==
    /\ wk[p][id].pc = "without"
    /\ UpdateOrderStatusOnly(p, id, "UpdateOrderWithoutAccrual", "with")
    /\ UNCHANGED <<users, credits, put, loop, rorders, retryAfter, cancelled,
                   batch, envVars>>

\* the accrual handed to UpdateOrderWithAccrual: 0 when Accrual was nil
AccrualArg(w) == IF w.accrual = NULL THEN 0 ELSE w.accrual

\* r.repo.UpdateOrderWithAccrual(ctx, OrderNumber, Status, accrual): DB.UpdateOrder
\* up to and including its UPDATE of orders
WWith(p, id) ==
    /\ wk[p][id].pc = "with"
    /\ LET w == wk[p][id]
       IN IF AccrualArg(w) = 0
          THEN UpdateOrderStatusOnly(p, id, "UpdateOrderWithAccrual", "done")
          ELSE IF cancelled[p] \/ RowsOf(orders, w.num) = {}
               THEN /\ wk' = [wk EXCEPT ![p][id] = Failed(w, "UpdateOrderWithAccrual")]
                    /\ UNCHANGED orders
               ELSE /\ orders' = UpdateAccrual(orders, w.num, w.status, AccrualArg(w))
                    /\ wk' = [wk EXCEPT ![p][id] =
                                [w EXCEPT !.pc = "balance",
                                          !.calls = Append(@, "UpdateOrderWithAccrual"),
                                          !.wrote = TRUE]]
    /\ UNCHANGED <<users, credits, put, loop, rorders, retryAfter, cancelled,
                   batch, envVars>>

\* DB.UpdateOrder, accrual # 0, second statement: the UPDATE of users; an error
\* when ctx is done or no row was updated, and nothing undoes the first UPDATE
WBalance(p, id) ==
    /\ wk[p][id].pc = "balance"
    /\ LET w == wk[p][id]
       IN IF cancelled[p] \/ UsersOf(orders, w.num) = {}
          THEN /\ wk' = [wk EXCEPT ![p][id] = [w EXCEPT !.pc = "done", !.err = TRUE]]
               /\ UNCHANGED <<users, credits>>
          ELSE /\ credits[w.num] < MaxCredits
               /\ users' = UpdateBalance(users, orders, w.num, AccrualArg(w))
               /\ credits' = [credits EXCEPT ![w.num] = @ + 1]
               /\ wk' = [wk EXCEPT ![p][id] = [w EXCEPT !.pc = "done"]]
    /\ UNCHANGED <<orders, put, loop, rorders, retryAfter, cancelled, batch, envVars>>

\* ----------------------------------------------------------- specification
Next ==
    \/ \E u \in env.users, num \in env.nums : PutUserOrderSelect(u, num)
    \/ \E u \in env.users : PutUserOrderInsert(u)
    \/ \E p \in env.instances : Fetch(p)
    \/ \E p \in env.instances : Join(p)
    \/ \E p \in env.instances : Tick(p)
    \/ \E p \in env.instances, id \in Workers : WStart(p, id)
    \/ \E p \in env.instances, id \in Workers : WGet(p, id)
    \/ \E p \in env.instances, id \in Workers : WWithout(p, id)
    \/ \E p \in env.instances, id \in Workers : WWith(p, id)
    \/ \E p \in env.instances, id \in Workers : WBalance(p, id)

\* one poller instance, as main.run starts it
Spec == Init /\ [][Next]_vars

\* two poller instances against the same store
SpecTwo == InitTwo /\ [][Next]_vars
SpecMany == InitMany /\ [][Next]_vars

\* the steps of the StartWorkers goroutine and of one worker goroutine
LoopStep(p) == Fetch(p) \/ Join(p) \/ Tick(p)
WorkerStep(p, id) ==
    WStart(p, id) \/ WGet(p, id) \/ WWithout(p, id) \/ WWith(p, id) \/ WBalance(p, id)

\* the Go scheduler runs every runnable goroutine, time.Sleep ends, and every
\* call to the accrual service and to the database returns
Fairness ==
    /\ WF_vars(LoopStep(1))
    /\ \A id \in Workers : WF_vars(WorkerStep(1, id))

SpecLive == InitLive /\ [][Next]_vars /\ Fairness
SpecManyLive == InitMany /\ [][Next]_vars /\ Fairness

\* one poller instance and an accrual service whose bodies may name another
\* order than the one asked for
SpecWrongBody == InitWrongBody /\ [][Next]_vars

\* ------------------------------------------------------ the service calls
\* Service.PutUserOrder with what it returns kept in ret: the checksum first,
\* then the SELECT of DB.PutUserOrder; "" while the call goes on to its INSERT
PutUserOrder(u, num) ==
    LET owner == OwnerOf(orders, num)
    IN /\ put[u].pc = "idle"
       /\ put' = IF checkOrderNumber(num) /\ owner = NilUUID
                 THEN [put EXCEPT ![u] = [pc |-> "insert", num |-> num]]
                 ELSE put
       /\ ret' = [ret EXCEPT ![u] =
                    [num |-> num,
                     err |-> IF ~checkOrderNumber(num) THEN "ErrIncorrectOrderNumber"
                             ELSE IF owner = NilUUID THEN ""
                             ELSE IF owner # u THEN "ErrOrderNumberAlreadyUsed"
                             ELSE "ErrOrderAlreadyExists"]]
       /\ UNCHANGED <<storeVars, pollerVars, env, wd>>

\* the sums a withdrawal may ask for: none, part of and all of what an order
\* was credited with
Sums == {0, 1, MaxAccrual}

\* mutant: the call goes to the repository without the checksum
PutUserWithdrawnOrder_NoCheck(r, u, num, sum) ==
    /\ wd[r].pc = "idle"
    /\ \A q \in 1..(r - 1) : wd[q].pc # "idle"
    /\ wd' = [wd EXCEPT ![r] =
                IF sum <= 0 \/ u = NilUUID
                THEN [pc |-> "done", user |-> u, num |-> num, sum |-> sum,
                      ret |-> "error"]
                ELSE [pc |-> "db", user |-> u, num |-> num, sum |-> sum, ret |-> ""]]
    /\ UNCHANGED <<storeVars, put, pollerVars, env, ret>>

\* a call that has returned err
Returned(u, num, sum, err) ==
    [pc |-> "done", user |-> u, num |-> num, sum |-> sum, ret |-> err]

\* Service.PutUserWithdrawnOrder up to its call of the repository: the three
\* checks in the order of the code; r is the r-th call made
PutUserWithdrawnOrder(r, u, num, sum) ==
    /\ wd[r].pc = "idle"
    /\ \A q \in 1..(r - 1) : wd[q].pc # "idle"
    /\ wd' = [wd EXCEPT ![r] =
                IF sum <= 0
                THEN Returned(u, num, sum, "withdrawn must be greater than zero")
                ELSE IF u = NilUUID
                THEN Returned(u, num, sum, "ErrInvalidUserUUID")
                ELSE IF ~checkOrderNumber(num)
                THEN Returned(u, num, sum, "ErrIncorrectOrderNumber")
                ELSE [pc |-> "db", user |-> u, num |-> num, sum |-> sum, ret |-> ""]]
    /\ UNCHANGED <<storeVars, put, pollerVars, env, ret>>

\* mutant: the debit without the balance check
Sufficient_Always(balance, sum) == TRUE

\* the check of the withdrawal: balance >= amount
Sufficient(balance, sum) == balance >= sum

\* the order row of a withdrawal
WithdrawnRow(num, user, sum) ==
    [OrderRow(num, "PROCESSED", user) EXCEPT !.withdrawn = sum]

\* the repository's PutUserWithdrawnOrder, one transaction holding the lock of
\* the user's row: ErrBalanceNotEnough and no write when the balance is short;
\* otherwise the withdrawal order is inserted (order_num is UNIQUE), the
\* balance debited and the withdrawn total raised
DebitForWithdrawal(r) ==
    LET w == wd[r]
    IN /\ w.pc = "db"
       /\ IF ~Sufficient(users[w.user].balance, w.sum)
          THEN /\ wd' = [wd EXCEPT ![r] =
                          Returned(w.user, w.num, w.sum, "ErrBalanceNotEnough")]
               /\ UNCHANGED <<orders, users>>
          ELSE IF RowsOf(orders, w.num) # {}
          THEN /\ wd' = [wd EXCEPT ![r] =
                          Returned(w.user, w.num, w.sum, "insert failed")]
               /\ UNCHANGED <<orders, users>>
          ELSE /\ orders' = Append(orders, WithdrawnRow(w.num, w.user, w.sum))
               /\ users' = [users EXCEPT ![w.user] =
                              [balance |-> @.balance - w.sum,
                               withdrawn |-> @.withdrawn + w.sum]]
               /\ wd' = [wd EXCEPT ![r] = Returned(w.user, w.num, w.sum, "nil")]
       /\ UNCHANGED <<credits, put, pollerVars, env, ret>>

\* a user whose order 18 was credited with MaxAccrual, no poller running; the
\* user submits orders and asks for withdrawals
InitService ==
    /\ env = [instances |-> {}, users |-> {"u1"}, nums |-> {N26, N34, N12},
              honest |-> TRUE]
    /\ orders = <<[OrderRow(N18, "PROCESSED", "u1") EXCEPT !.accrual = MaxAccrual]>>
    /\ users = [u \in Users |->
                  [balance |-> IF u = "u1" THEN MaxAccrual ELSE 0, withdrawn |-> 0]]
    /\ put = [u \in Users |-> [pc |-> "idle", num |-> EmptyNum]]
    /\ credits = [n \in OrderNums |-> IF n = N18 THEN 1 ELSE 0]
    /\ InitPollers
    /\ InitCalls

NextService ==
    \/ \E u \in env.users, num \in env.nums : PutUserOrder(u, num)
    \/ \E u \in env.users : PutUserOrderInsert(u)
    \/ \E r \in Reqs, u \in env.users \cup {NilUUID}, num \in env.nums, sum \in Sums :
          PutUserWithdrawnOrder(r, u, num, sum)
    \/ \E r \in Reqs : DebitForWithdrawal(r)

SpecService == InitService /\ [][NextService]_vars

\* the INSERT of DB.PutUserOrder with what the call returns kept in ret: nil
\* when the row was inserted; the wrapped error of pool.Exec when order_num is
\* stored by now and the UNIQUE constraint refuses the row
PutUserOrderExec(u) ==
    /\ put[u].pc = "insert"
    /\ orders' = IF RowsOf(orders, put[u].num) = {}
                 THEN Append(orders, OrderRow(put[u].num, "NEW", u))
                 ELSE orders
    /\ ret' = [ret EXCEPT ![u].err =
                 IF RowsOf(orders, put[u].num) = {} THEN "nil"
                 ELSE "failed to insert userUUID"]
    /\ put' = [put EXCEPT ![u] = [pc |-> "idle", num |-> EmptyNum]]
    /\ UNCHANGED <<users, credits, pollerVars, env, wd>>

\* two users submitting the same numbers, their calls running together; no
\* poller running
InitSubmit ==
    /\ env = [instances |-> {}, users |-> Users, nums |-> SubmitNums,
              honest |-> TRUE]
    /\ InitStore
    /\ InitPollers
    /\ InitCalls

NextSubmit ==
    \/ \E u \in env.users, num \in env.nums : PutUserOrder(u, num)
    \/ \E u \in env.users : PutUserOrderExec(u)

SpecSubmit == InitSubmit /\ [][NextSubmit]_vars

\* ------------------------------------------------- inputs of the validator
\* the characters of the strings: the digits and a letter
Alphabet == DigitChars \cup {"a"}

Luhn79927398713 == <<"7", "9", "9", "2", "7", "3", "9", "8", "7", "1", "3">>
Num1234567812345678 ==
    <<"1", "2", "3", "4", "5", "6", "7", "8", "1", "2", "3", "4", "5", "6", "7", "8">>

\* every string of at most MaxLen characters, and the two long numbers
ValidatorInputs ==
    UNION {[1..k -> Alphabet] : k \in 0..MaxLen}
    \cup {Luhn79927398713, Num1234567812345678}

\* one user submitting one string as an order number, no poller running
InitLuhn ==
    /\ \E s \in ValidatorInputs :
          env = [instances |-> {}, users |-> {"u1"}, nums |-> {s}, honest |-> TRUE]
    /\ InitStore
    /\ InitPollers
    /\ InitCalls

NextLuhn ==
    \/ \E u \in env.users, num \in env.nums : PutUserOrder(u, num)
    \/ \E u \in env.users : PutUserOrderInsert(u)

SpecLuhn == InitLuhn /\ [][NextLuhn]_vars

\* ------------------------------------------------------------------ claims
\* every worker of the started instances
Running == {pi \in env.instances \X Workers : wk[pi[1]][pi[2]].pc # "none"}

\* a DB.UpdateOrder call for number n is between its two UPDATE statements
MidUpdate(n) ==
    \E pi \in Running : wk[pi[1]][pi[2]].pc = "balance" /\ wk[pi[1]][pi[2]].num = n

\* C1: with one poller instance, the balance is credited for an order never
\* twice, and exactly once as soon as the order is stored PROCESSED with an
\* accrual and the update that stored it has returned.
C1_CreditedExactlyOnce ==
    \A i \in 1..Len(orders) :
        /\ credits[orders[i].order_num] <= 1
        /\ (/\ orders[i].status = "PROCESSED"
            /\ orders[i].accrual # NULL
            /\ ~MidUpdate(orders[i].order_num))
           => credits[orders[i].order_num] = 1

\* a worker is inside UpdateOrderWithAccrual with a non-zero accrual
InCredited(p, id) ==
    /\ wk[p][id].pc \in {"with", "balance"}
    /\ AccrualArg(wk[p][id]) # 0

\* C2: a credited update of an order whose balance was already credited, by the
\* same or by another poller instance, fails and changes no row: the second
\* call returns an error and leaves orders and balances as the first left them.
C2_SecondCreditedCallFails ==
    [][\A p \in env.instances, id \in Workers :
          (/\ InCredited(p, id)
           /\ credits[wk[p][id].num] >= 1
           /\ wk'[p][id] # wk[p][id])
          => (/\ wk'[p][id].pc = "done"
              /\ wk'[p][id].err
              /\ orders' = orders
              /\ users' = users)]_vars

RECURSIVE SumAccruals(_, _, _)
\* the sum of the accruals stored on the orders of user u
SumAccruals(os, u, i) ==
    IF i > Len(os) THEN 0
    ELSE (IF os[i].user_uuid = u /\ os[i].accrual # NULL THEN os[i].accrual ELSE 0)
         + SumAccruals(os, u, i + 1)

\* C3: what GetUserOrders and GetBalance can read never shows an accrual
\* stored on an order without the owner's balance raised by it, nor the
\* reverse: in every state each user's balance plus withdrawn amount equals
\* the sum of the accruals stored on that user's orders.
C3_CreditedUpdateAtomic ==
    \A u \in Users :
        users[u].balance + users[u].withdrawn = SumAccruals(orders, u, 1)

\* C4: a store update that returned an error has left nothing written.
C4_NoPartialEffect ==
    \A pi \in Running :
        (wk[pi[1]][pi[2]].pc = "done" /\ wk[pi[1]][pi[2]].err)
        => ~wk[pi[1]][pi[2]].wrote

\* the lookup of worker id was answered 200 with PROCESSED and an accrual a > 0
CreditedAnswer(p, id) ==
    /\ wk[p][id].got = "200"
    /\ wk[p][id].status = "PROCESSED"
    /\ wk[p][id].accrual # NULL
    /\ wk[p][id].accrual > 0

\* no other lookup of the batch was answered with a credit for the same user
OnlyCreditOfUser(p, id) ==
    \A j \in Workers \ {id} :
        CreditedAnswer(p, j)
        => OwnerOf(orders, wk[p][j].num) # OwnerOf(orders, wk[p][id].num)

\* the poll cycle of poller p is complete: the batch has joined
CycleDone(p) == loop[p].pc \in {"sleep", "fetch"}

\* C5: once the poll cycle is complete, an order whose lookup was answered
\* PROCESSED with accrual a > 0 is stored PROCESSED with accrual a, and its
\* owner's balance is the balance at the time of the answer plus a.
C5_EndToEnd ==
    \A p \in env.instances, id \in Workers :
        (CycleDone(p) /\ CreditedAnswer(p, id) /\ OnlyCreditOfUser(p, id))
        => LET w == wk[p][id]
           IN /\ \A i \in RowsOf(orders, w.num) :
                    orders[i].status = "PROCESSED" /\ orders[i].accrual = w.accrual
              /\ users[OwnerOf(orders, w.num)].balance = w.bal0 + w.accrual

\* C6: a status never moves backward: a row that is PROCESSED or INVALID keeps
\* its status in every step, and no row goes from PROCESSING to NEW.
C6_StatusOnlyForward ==
    [][\A i \in 1..Len(orders) :
          /\ orders[i].status \in {"PROCESSED", "INVALID"}
             => orders'[i].status = orders[i].status
          /\ ~(orders[i].status = "PROCESSING" /\ orders'[i].status = "NEW")]_vars

\* C7: every stored status is one of NEW, PROCESSING, INVALID, PROCESSED.
C7_StatusInClosedSet ==
    \A i \in 1..Len(orders) :
        orders[i].status \in {"NEW", "PROCESSING", "INVALID", "PROCESSED"}

C9_OneUpdatePerVerdict ==
    \A pi \in Running :
        LET w == wk[pi[1]][pi[2]]
        IN (w.pc = "done" /\ w.got = "200")
           => w.calls = IF w.accrual = NULL
                        THEN <<"UpdateOrderWithoutAccrual">>
                        ELSE <<"UpdateOrderWithAccrual">>

\* the largest element of a non-empty set of numbers
Max(S) == CHOOSE x \in S : \A y \in S : y <= x

\* the Retry-After values, in seconds, advertised to the lookups of the batch
Advertised(p) ==
    {Atoi(batch[p].hdrs[k]).val : k \in 1..Len(batch[p].hdrs)}

\* every 429 answer of the batch carried a Retry-After of N > 0 seconds
AllAdvertised(p) ==
    /\ batch[p].hdrs # <<>>
    /\ \A k \in 1..Len(batch[p].hdrs) :
          ~Atoi(batch[p].hdrs[k]).err /\ Atoi(batch[p].hdrs[k]).val > 0

\* C10: after a batch in which lookups were answered 429 with Retry-After = N
\* seconds, N > 0, the next fetch does not start before N seconds have passed
\* since the join, for the N of every such lookup.
C10_CoolDownEveryLookup ==
    \A p \in env.instances :
        AllAdvertised(p)
        => /\ loop[p].pc = "sleep"
              => loop[p].sleepLeft + batch[p].elapsed >= Max(Advertised(p))
           /\ loop[p].pc = "fetch" => batch[p].elapsed >= Max(Advertised(p))

\* C10 as amended: when exactly one lookup of the batch was answered 429, with
\* Retry-After = N > 0, then until the join r.retryAfter is N and the batch's
\* ctx is done, and the next fetch starts no sooner than N seconds after the
\* join.
C10_CoolDownSingleLookup ==
    \A p \in env.instances :
        (Len(batch[p].hdrs) = 1 /\ AllAdvertised(p))
        => LET N == Atoi(batch[p].hdrs[1]).val
           IN /\ loop[p].pc = "wait" => (retryAfter[p] = N /\ cancelled[p])
              /\ loop[p].pc = "sleep" => loop[p].sleepLeft + batch[p].elapsed >= N
              /\ loop[p].pc = "fetch" => batch[p].elapsed >= N

\* C10 witness: one lookup was answered 429 with Retry-After 3, a sibling
\* aborted on the signal, and the loop is back at its fetch 3 seconds later.
C10_Witness ==
    /\ batch[1].hdrs = << <<"3">> >>
    /\ loop[1].pc = "fetch"
    /\ batch[1].elapsed = 3
    /\ \E id \in Workers : wk[1][id].got = "aborted"

\* C11: a dispatching cycle in which no lookup was answered 429 sleeps the
\* fixed poll interval after its join, whatever an earlier cycle recorded.
C11_CoolDownOneCycleOnly ==
    \A p \in env.instances :
        (/\ loop[p].pc = "sleep"
         /\ rorders[p] # <<>>
         /\ batch[p].hdrs = <<>>
         /\ batch[p].elapsed = 0)
        => loop[p].sleepLeft = pollSleepTime

\* C12: while the batch's ctx is done, a worker that has not started aborts,
\* and no step of a worker that has not begun a credited update changes an
\* order or a balance.
C12_CancelledLookupAppliesNothing ==
    [][\A p \in env.instances, id \in Workers :
          (/\ cancelled[p]
           /\ wk[p][id].pc \in {"start", "get", "without", "with"}
           /\ wk'[p][id] # wk[p][id])
          => (/\ orders' = orders
              /\ users' = users
              /\ wk[p][id].pc = "start" => wk'[p][id].pc = "done")]_vars

\* C12 witness: the signal was raised while a lookup was in its network call;
\* the lookup was then answered 200 and its store call failed, nothing written.
C12_Witness ==
    /\ cancelled[1]
    /\ loop[1].pc = "wait"
    /\ \E id \in Workers :
          /\ wk[1][id].pc = "done"
          /\ wk[1][id].got = "200"
          /\ wk[1][id].err
          /\ ~wk[1][id].wrote
          /\ wk[1][id].num = rorders[1][id]
          /\ wk[1][id].status = "PROCESSED"
          /\ \A i \in RowsOf(orders, rorders[1][id]) : orders[i].status = "NEW"

\* C13: a credited update that has written the order when the signal is raised
\* completes: its next step credits the owner's balance with the accrual.
C13_BegunUpdateCompletes ==
    [][\A p \in env.instances, id \in Workers :
          (/\ wk[p][id].pc = "balance"
           /\ cancelled[p]
           /\ wk'[p][id] # wk[p][id])
          => users'[OwnerOf(orders, wk[p][id].num)].balance
             = users[OwnerOf(orders, wk[p][id].num)].balance + wk[p][id].accrual]_vars

\* the statuses GetUnprocessedOrders selects
IsPending(row) == row.status \in {"NEW", "PROCESSING"}

\* position of an order number in the orders table, by creation time
RowOf(num) == CHOOSE i \in RowsOf(orders, num) : TRUE

\* C14: an order whose lookup was answered 204 is left as it was, still NEW or
\* PROCESSING, and the next successful fetch returns it again.
C14_NotFoundStaysPending ==
    /\ [](\A p \in env.instances, id \in Workers :
            wk[p][id].got = "204"
            => \A i \in RowsOf(orders, rorders[p][id]) : IsPending(orders[i]))
    /\ [][\A p \in env.instances, id \in Workers :
            /\ (wk[p][id].pc = "get" /\ wk'[p][id].got = "204")
               => (orders' = orders /\ users' = users)
            /\ (/\ wk[p][id].got = "204"
                /\ loop[p].pc = "fetch"
                /\ loop'[p].pc # "fetch"
                /\ rorders'[p] # <<>>)
               => \E j \in 1..Len(rorders'[p]) : rorders'[p][j] = rorders[p][id]]_vars

\* C14 witness: a lookup was answered 204, the loop is about to fetch again, and
\* more orders are pending than a batch holds.
C14_Witness ==
    /\ loop[1].pc = "fetch"
    /\ \E id \in Workers : wk[1][id].got = "204"
    /\ Len(PendingNums(orders, 1)) > WorkerNum

\* C20: a fetch returns at most WorkerNum numbers, each of a NEW or PROCESSING
\* order, oldest first; every pending order left out is newer than every order
\* returned; an empty result sends the loop to its poll sleep.
C20_FetchOldestFirst ==
    [][\A p \in env.instances :
          (loop[p].pc = "fetch" /\ loop'[p].pc # "fetch")
          => LET got == rorders'[p]
             IN /\ Len(got) <= WorkerNum
                /\ \A j \in 1..Len(got) :
                      /\ RowsOf(orders, got[j]) # {}
                      /\ \A i \in RowsOf(orders, got[j]) : IsPending(orders[i])
                /\ \A j, k \in 1..Len(got) : j < k => RowOf(got[j]) < RowOf(got[k])
                /\ \A i \in 1..Len(orders) :
                      (/\ IsPending(orders[i])
                       /\ \A j \in 1..Len(got) : got[j] # orders[i].order_num)
                      => \A j \in 1..Len(got) : RowOf(got[j]) < i
                /\ got = <<>> => loop'[p] = Sleeping(pollSleepTime)
                /\ got # <<>> => loop'[p].pc = "wait"]_vars

\* C20 witness: a batch of WorkerNum orders was just fetched and a newer
\* pending order was left out.
C20_Witness ==
    /\ loop[1].pc = "wait"
    /\ Len(rorders[1]) = WorkerNum
    /\ \A id \in Workers : wk[1][id].pc = "start"
    /\ \E i \in 1..Len(orders) :
          /\ IsPending(orders[i])
          /\ \A j \in 1..Len(rorders[1]) :
                rorders[1][j] # orders[i].order_num /\ RowOf(rorders[1][j]) < i

\* C15: whatever the lookups of a cycle and its fetch come to, the loop starts
\* another fetch: fetch steps happen again and again.
C15_LoopKeepsFetching == []<><<Fetch(1)>>_vars

\* C15 witness: after a cycle in which a store update failed and a lookup was
\* answered 429, the loop is at its next fetch.
C15_Witness ==
    /\ loop[1].pc = "fetch"
    /\ \E id \in Workers : wk[1][id].pc = "done" /\ wk[1][id].err
    /\ \E id \in Workers : wk[1][id].got = "429"

RECURSIVE SumDebited(_, _)
\* the sums of the withdrawal calls 1..r of user u that returned nil
SumDebited(u, r) ==
    IF r = 0 THEN 0
    ELSE (IF wd[r].user = u /\ wd[r].ret = "nil" THEN wd[r].sum ELSE 0)
         + SumDebited(u, r - 1)

\* C16: of the withdrawals of a user, those that succeed fit under the balance
\* together; one that fails with ErrBalanceNotEnough writes nothing and does
\* not fit under what is left; no balance is ever negative.
C16_ConcurrentDebitsFit ==
    /\ [](\A u \in Users :
            /\ users[u].balance >= 0
            /\ users[u].withdrawn = SumDebited(u, MaxReqs)
            /\ users[u].balance = SumAccruals(orders, u, 1) - SumDebited(u, MaxReqs))
    /\ [](\A r \in Reqs :
            wd[r].ret = "ErrBalanceNotEnough" => wd[r].sum > users[wd[r].user].balance)
    /\ [][\A r \in Reqs :
            (wd[r].pc = "db" /\ wd'[r].pc = "done")
            => \/ wd'[r].ret = "nil"
               \/ wd'[r].ret = "ErrBalanceNotEnough" /\ orders' = orders /\ users' = users
               \/ /\ wd'[r].ret = "insert failed"
                  /\ RowsOf(orders, wd[r].num) # {}
                  /\ orders' = orders
                  /\ users' = users]_vars

\* C16 witness: two withdrawals of one user with different order numbers, whose
\* sums together exceed the credited balance: one returned nil, the other
\* ErrBalanceNotEnough.
C16_Witness ==
    /\ wd[1].ret = "nil"
    /\ wd[2].ret = "ErrBalanceNotEnough"
    /\ wd[1].user = wd[2].user
    /\ wd[1].num # wd[2].num
    /\ wd[1].sum + wd[2].sum > MaxAccrual
    /\ users[wd[1].user].balance = MaxAccrual - wd[1].sum

\* every number the store holds or is being called with passes the checksum,
\* and a call with a failing number changes neither orders nor balances
OnlyCheckedNumbersStored ==
    /\ [](/\ \A i \in 1..Len(orders) : checkOrderNumber(orders[i].order_num)
          /\ \A u \in Users : put[u].pc = "insert" => checkOrderNumber(put[u].num)
          /\ \A r \in Reqs : wd[r].pc = "db" => checkOrderNumber(wd[r].num))
    /\ [][/\ \A u \in Users :
               (ret'[u] # ret[u] /\ ~checkOrderNumber(ret'[u].num))
               => (orders' = orders /\ users' = users /\ put' = put)
          /\ \A r \in Reqs :
               (wd'[r] # wd[r] /\ ~checkOrderNumber(wd'[r].num))
               => (orders' = orders /\ users' = users /\ wd'[r].pc = "done")]_vars

\* C19: the validator is the sole gate, and every call with a failing number
\* returns ErrIncorrectOrderNumber.
C19_SoleGateIncorrectNumber ==
    /\ OnlyCheckedNumbersStored
    /\ [](/\ \A u \in Users :
               (ret[u].err # "no call" /\ ~checkOrderNumber(ret[u].num))
               => ret[u].err = "ErrIncorrectOrderNumber"
          /\ \A r \in Reqs :
               (wd[r].pc = "done" /\ ~checkOrderNumber(wd[r].num))
               => wd[r].ret = "ErrIncorrectOrderNumber")

\* C19, amended: the validator is the sole gate; a call with a failing number
\* returns an error, which is ErrIncorrectOrderNumber for PutUserOrder and, for
\* PutUserWithdrawnOrder, when the sum is positive and the user is not uuid.Nil.
C19_SoleGate ==
    /\ OnlyCheckedNumbersStored
    /\ [](/\ \A u \in Users :
               (ret[u].err # "no call" /\ ~checkOrderNumber(ret[u].num))
               => ret[u].err = "ErrIncorrectOrderNumber"
          /\ \A r \in Reqs :
               (wd[r].pc = "done" /\ ~checkOrderNumber(wd[r].num))
               => /\ wd[r].ret # "nil"
                  /\ (wd[r].sum > 0 /\ wd[r].user # NilUUID)
                     => wd[r].ret = "ErrIncorrectOrderNumber")

\* C19 witness: both calls were made with the failing number 12 and returned
\* ErrIncorrectOrderNumber, and the orders table is as it was.
C19_Witness ==
    /\ ret["u1"] = [num |-> N12, err |-> "ErrIncorrectOrderNumber"]
    /\ \E r \in Reqs :
          /\ wd[r].num = N12
          /\ wd[r].sum > 0
          /\ wd[r].ret = "ErrIncorrectOrderNumber"
    /\ Len(orders) = 1

\* the strings of digits only
IsDigitString(s) == \A i \in 1..Len(s) : s[i] \in DigitChars

RECURSIVE LuhnTotal(_, _)
\* reference checksum, positions 1..k of s: a digit at an odd distance from
\* the right end counts as the digit sum of its double, the others as they are
LuhnTotal(s, k) ==
    IF k = 0 THEN 0
    ELSE LET d == DigitVal(s[k])
         IN (IF (Len(s) - k) % 2 = 1 THEN ((2 * d) \div 10) + ((2 * d) % 10) ELSE d)
            + LuhnTotal(s, k - 1)

LuhnReference(s) == LuhnTotal(s, Len(s)) % 10 = 0

\* whether the call of PutUserOrder with s found s valid, as its result shows
Accepted(u) == ret[u].err # "ErrIncorrectOrderNumber"

\* C17: for every digit string given to PutUserOrder, what the validator found
\* is what the reference checksum finds.
C17_MatchesReference ==
    \A u \in env.users :
        (ret[u].err # "no call" /\ IsDigitString(ret[u].num))
        => (Accepted(u) <=> LuhnReference(ret[u].num))

\* C17, amended: the same for every digit string of at least two digits.
C17_MatchesReferenceFromTwoDigits ==
    \A u \in env.users :
        (ret[u].err # "no call" /\ IsDigitString(ret[u].num) /\ Len(ret[u].num) >= 2)
        => (Accepted(u) <=> LuhnReference(ret[u].num))

\* C17 witness: a digit string the reference finds valid was given to
\* PutUserOrder, found valid and stored.
C17_Witness ==
    /\ ret["u1"].num = Luhn79927398713
    /\ LuhnReference(Luhn79927398713)
    /\ Accepted("u1")
    /\ Len(orders) = 1

\* C18: a string shorter than two characters or holding a character that is
\* not a digit is refused; so are "1", "12a" and "1234567812345678", and
\* "79927398713" is accepted.
C18_ShortOrNonDigitRefused ==
    /\ \A u \in env.users :
          ret[u].err # "no call"
          => /\ (Len(ret[u].num) < 2 \/ ~IsDigitString(ret[u].num)) => ~Accepted(u)
             /\ ret[u].num \in {<<"1">>, <<"1", "2", "a">>, Num1234567812345678}
                => ~Accepted(u)
             /\ ret[u].num = Luhn79927398713 => Accepted(u)
    /\ \A i \in 1..Len(orders) :
          Len(orders[i].order_num) >= 2 /\ IsDigitString(orders[i].order_num)

\* C18 witness: "12a" was submitted and refused.
C18_Witness ==
    /\ ret["u1"] = [num |-> <<"1", "2", "a">>, err |-> "ErrIncorrectOrderNumber"]
    /\ orders = <<>>

\* the terminal statuses
IsTerminal(row) == row.status \in {"PROCESSED", "INVALID"}

\* a step of worker id of poller p that is a store call with accrual 0
StatusOnlyCall(p, id) ==
    /\ wk[p][id].pc \in {"without", "with"}
    /\ AccrualArg(wk[p][id]) = 0
    /\ wk'[p][id] # wk[p][id]

\* C21: an update without accrual fails and changes nothing when no order has
\* the number or the order is PROCESSED or INVALID; when it succeeds it changes
\* only the status of that order.
C21_NonTerminalUpdate ==
    [][\A p \in env.instances, id \in Workers :
          StatusOnlyCall(p, id)
          => LET num == wk[p][id].num
             IN /\ (\/ RowsOf(orders, num) = {}
                    \/ \E i \in RowsOf(orders, num) : IsTerminal(orders[i]))
                   => (wk'[p][id].err /\ orders' = orders /\ users' = users)
                /\ ~wk'[p][id].err
                   => /\ users' = users
                      /\ Len(orders') = Len(orders)
                      /\ \A i \in 1..Len(orders) :
                            /\ orders'[i].accrual = orders[i].accrual
                            /\ orders[i].order_num # num => orders'[i] = orders[i]]_vars

\* C22: the rows of the orders table keep their number and their owner, and
\* no row disappears.
C22_OwnerNeverChanges ==
    [][/\ Len(orders') >= Len(orders)
       /\ \A i \in 1..Len(orders) :
             /\ orders'[i].user_uuid = orders[i].user_uuid
             /\ orders'[i].order_num = orders[i].order_num]_vars

\* C22 witness: order 18 of u1 has been updated by the poller while u2, whose
\* SELECT found no such number, is about to INSERT the same number.
C22_Witness ==
    /\ put["u2"] = [pc |-> "insert", num |-> N18]
    /\ \E i \in 1..Len(orders) :
          /\ orders[i].order_num = N18
          /\ orders[i].user_uuid = "u1"
          /\ orders[i].status = "PROCESSED"

\* C23: a submission adds one row, NEW and with no accrual, and changes no
\* other row; the status or accrual of an existing row changes only in a
\* store call of a worker.
C23_OnlyPollerWritesTerminal ==
    [][/\ Len(orders') > Len(orders)
          => /\ Len(orders') = Len(orders) + 1
             /\ orders'[Len(orders')].status = "NEW"
             /\ orders'[Len(orders')].accrual = NULL
             /\ \A i \in 1..Len(orders) : orders'[i] = orders[i]
       /\ \A i \in 1..Len(orders) :
             (i <= Len(orders') /\ orders'[i] # orders[i])
             => /\ put' = put
                /\ \E p \in env.instances, id \in Workers :
                      /\ wk[p][id].pc \in {"without", "with"}
                      /\ wk'[p][id] # wk[p][id]]_vars

\* C23 witness: one order was made INVALID by the poller and another was
\* submitted after it and is NEW.
C23_Witness ==
    /\ Len(orders) = 2
    /\ orders[1].status = "INVALID"
    /\ orders[2].status = "NEW"
    /\ orders[2].accrual = NULL

\* C24: a lookup answered 429 leaves the batch's ctx done and, when its
\* Retry-After is a number, r.retryAfter holding that number.
C24_RateLimitedAlwaysCancels ==
    [][\A p \in env.instances, id \in Workers :
          (wk[p][id].pc = "get" /\ wk'[p][id].got = "429")
          => LET h == batch'[p].hdrs[Len(batch'[p].hdrs)]
             IN /\ cancelled'[p]
                /\ (h # <<>> /\ ~Atoi(h).err) => retryAfter'[p] = Atoi(h).val]_vars

\* the numbers of seconds the 429 answers of the batch advertised
Parsed(p) ==
    {Atoi(batch[p].hdrs[k]).val :
        k \in {j \in 1..Len(batch[p].hdrs) :
                  batch[p].hdrs[j] # <<>> /\ ~Atoi(batch[p].hdrs[j]).err}}

\* the loop of poller p has just joined a batch and gone to sleep
JustJoined(p) ==
    /\ loop[p].pc = "sleep"
    /\ rorders[p] # <<>>
    /\ batch[p].elapsed = 0

\* C25: after a batch in which several lookups were answered 429, one of them
\* at least with a number of seconds, the loop sleeps a number of seconds that
\* one of them was given.
C25_SleepsAnAdvertisedValue ==
    \A p \in env.instances :
        (JustJoined(p) /\ Len(batch[p].hdrs) >= 2 /\ Parsed(p) # {})
        => loop[p].sleepLeft \in Parsed(p)

\* the workers of poller p that have been started and have not returned
Active(p) == {id \in Workers : wk[p][id].pc \notin {"none", "done"}}

\* C26: while a worker of the batch has not returned the loop is in wg.Wait:
\* it leaves it, reads r.retryAfter and sleeps only when all have returned.
C26_LoopWaitsForBatch ==
    /\ [](\A p \in env.instances : Active(p) # {} => loop[p].pc = "wait")
    /\ [][\A p \in env.instances :
            (loop[p].pc = "wait" /\ loop'[p].pc # "wait")
            => /\ \A id \in 1..Len(rorders[p]) : wk[p][id].pc = "done"
               /\ loop'[p] = Sleeping(SleepTime(retryAfter[p]))]_vars

\* C26 witness: the loop is still waiting with one worker returned on a 429 and
\* the other in its store call.
C26_Witness ==
    /\ loop[1].pc = "wait"
    /\ \E id \in Workers : wk[1][id].got = "429"
    /\ \E id \in Workers : wk[1][id].pc = "balance"

\* C27: a batch has at most WorkerNum numbers, all different; its workers are
\* one per number, started by the fetch only, and each does one GET.
C27_OneLookupPerOrder ==
    /\ [](\A p \in env.instances :
            /\ Len(rorders[p]) <= WorkerNum
            /\ \A j, k \in 1..Len(rorders[p]) : j # k => rorders[p][j] # rorders[p][k]
            /\ Cardinality(Active(p)) <= Len(rorders[p])
            /\ \A id \in Workers : wk[p][id].pc # "none" <=> id <= Len(rorders[p]))
    /\ [][\A p \in env.instances, id \in Workers :
            wk'[p][id] # wk[p][id]
            => /\ wk'[p][id].pc = "start" => loop[p].pc = "fetch"
               /\ wk'[p][id].pc = "get" => wk[p][id].pc = "start"
               /\ wk[p][id].pc = "get" => wk'[p][id].pc # "get"]_vars

\* C27 witness: WorkerNum lookups are in their GET together while another
\* order is pending.
C27_Witness ==
    /\ Len(rorders[1]) = WorkerNum
    /\ \A id \in Workers : wk[1][id].pc = "get"
    /\ Len(PendingNums(orders, 1)) > WorkerNum

\* the ends of a lookup without a verdict
NoVerdict == {"204", "429", "error", "other"}

\* C28: a lookup that ends in 204, 429, a transport error or another status
\* changes no order and no balance, and makes no store call.
C28_NoVerdictNoChange ==
    /\ [](\A p \in env.instances, id \in Workers :
            wk[p][id].got \in NoVerdict
            => (wk[p][id].pc = "done" /\ wk[p][id].calls = <<>> /\ ~wk[p][id].wrote))
    /\ [][\A p \in env.instances, id \in Workers :
            (wk[p][id].pc = "get" /\ wk'[p][id].got \in NoVerdict)
            => (orders' = orders /\ users' = users)]_vars

\* C28 witness: the two lookups of a batch ended in a transport error and in
\* another status, and both orders are NEW.
C28_Witness ==
    /\ Len(orders) = 2
    /\ \A i \in 1..Len(orders) : orders[i].status = "NEW"
    /\ \E id \in Workers : wk[1][id].got = "error"
    /\ \E id \in Workers : wk[1][id].got = "other"

\* C29: a fetch that returns nothing, or fails, starts no worker and sends the
\* loop to its poll sleep with no store change; until the next fetch no worker
\* runs; the list a cycle dispatches is the one its own fetch returned.
C29_EmptyOrFailedFetch ==
    /\ [](\A p \in env.instances :
            rorders[p] = <<>> => \A id \in Workers : wk[p][id].pc = "none")
    /\ [][\A p \in env.instances :
            /\ (loop[p].pc = "fetch" /\ loop'[p].pc # "fetch" /\ loop'[p].pc # "wait")
               => /\ loop'[p] = Sleeping(pollSleepTime)
                  /\ rorders'[p] = <<>>
                  /\ \A id \in Workers : wk'[p][id].pc = "none"
                  /\ orders' = orders
                  /\ users' = users
            /\ (loop[p].pc = "fetch" /\ loop'[p].pc = "wait")
               => rorders'[p] = GetUnprocessedOrders(orders, WorkerNum)]_vars

\* C29 witness: a fetch failed after an earlier batch had made an order
\* PROCESSING: the order is pending, the list is empty and the loop sleeps.
C29_Witness ==
    /\ loop[1] = Sleeping(pollSleepTime)
    /\ rorders[1] = <<>>
    /\ \E i \in 1..Len(orders) : orders[i].status = "PROCESSING"

\* every fetch so far succeeded and every lookup of the current batch ended,
\* if it has ended, in 204, a transport error or an unexpected status
OnlyNotFoundOrFailure ==
    /\ ~(loop[1].pc = "sleep" /\ rorders[1] = <<>>)
    /\ \A id \in Workers : wk[1][id].got \in {"", "204", "error", "other"}

\* order 34, the newest, is stored and pending
NewerPending == \E i \in 1..Len(orders) : orders[i].order_num = N34 /\ IsPending(orders[i])

\* order 34 is in the batch of the poller
NewerLookedUp == \E j \in 1..Len(rorders[1]) : rorders[1][j] = N34

\* C30: with more pending orders than WorkerNum, and the lookups of the
\* oldest ones ending in 204 or a failure on every cycle, the newest pending
\* order is eventually looked up.
C30_NewerOrderEventuallyLookedUp ==
    ([]OnlyNotFoundOrFailure) => (NewerPending ~> NewerLookedUp)

\* a step of worker id of poller p that is one of its store statements
StoreStep(p, id) ==
    /\ wk[p][id].pc \in {"without", "with", "balance"}
    /\ wk'[p][id] # wk[p][id]

\* C31: a store statement of the lookup issued for order X changes no order
\* other than X and no balance other than that of X's owner, whatever order
\* number the response body carried.
C31_LookupUpdatesOnlyItsOrder ==
    [][\A p \in env.instances, id \in Workers :
          StoreStep(p, id)
          => LET X == rorders[p][id]
             IN /\ Len(orders') = Len(orders)
                /\ \A i \in 1..Len(orders) :
                      orders[i].order_num # X => orders'[i] = orders[i]
                /\ \A u \in Users :
                      u # OwnerOf(orders, X) => users'[u] = users[u]]_vars

\* every lookup of the current batch that has been answered was answered 204
\* or 200 with a well-formed verdict other than INVALID, an accrual coming
\* with PROCESSED only; and a fetch that returned nothing found nothing pending
VerdictsOrNotFound ==
    /\ \A id \in Workers :
          /\ wk[1][id].got \in {"", "200", "204"}
          /\ wk[1][id].got = "200"
             => \/ wk[1][id].status \in {"REGISTERED", "PROCESSING"}
                   /\ wk[1][id].accrual = NULL
                \/ wk[1][id].status = "PROCESSED" /\ wk[1][id].accrual # NULL
    /\ (loop[1].pc = "sleep" /\ rorders[1] = <<>> /\ batch[1].elapsed = 0)
       => PendingNums(orders, 1) = <<>>

\* every lookup of the current batch that has been answered was answered
\* PROCESSED with an accrual
OnlyProcessedAnswers ==
    \A id \in Workers :
        wk[1][id].got # ""
        => (/\ wk[1][id].got = "200"
            /\ wk[1][id].status = "PROCESSED"
            /\ wk[1][id].accrual # NULL)

\* order 18 is stored PROCESSED and, when an accrual was stored with it, its
\* owner's balance has been credited
Order18Credited ==
    \E i \in RowsOf(orders, N18) :
        /\ orders[i].status = "PROCESSED"
        /\ orders[i].accrual # NULL => credits[N18] >= 1

\* C32: with at most WorkerNum pending orders, no 429 and no failure, when the
\* lookups are answered REGISTERED, PROCESSING or 204 for a while and from
\* some point on PROCESSED with an accrual, order 18 eventually is PROCESSED
\* and its owner credited.
C32_EventuallyCredited ==
    (([]VerdictsOrNotFound) /\ <>[]OnlyProcessedAnswers) => <>Order18Credited

\* a worker is inside a store call, or a withdrawal inside its transaction
UpdateInFlight ==
    \/ \E pi \in Running : wk[pi[1]][pi[2]].pc \in {"without", "with", "balance"}
    \/ \E r \in Reqs : wd[r].pc = "db"

\* C33: whenever no store update is in flight, each user's balance is the sum
\* of the accruals stored on the user's orders minus the user's withdrawn
\* total.
C33_LedgerConservation ==
    ~UpdateInFlight
    => \A u \in Users :
          users[u].balance = SumAccruals(orders, u, 1) - users[u].withdrawn

\* a step of worker id of poller p that is a statement of a store call with an
\* accrual other than 0
CreditStep(p, id) ==
    /\ InCredited(p, id)
    /\ wk'[p][id] # wk[p][id]

\* C34: the statements of a credited update of an order change that order's
\* row and its owner's balance only: every other row, every other user, and
\* the owner's withdrawn total stay as they are; the UPDATE of users adds the
\* accrual to the owner's balance.
C34_CreditTouchesOwnerOnly ==
    [][\A p \in env.instances, id \in Workers :
          CreditStep(p, id)
          => LET num == wk[p][id].num
                 owner == OwnerOf(orders, num)
             IN /\ Len(orders') = Len(orders)
                /\ \A i \in 1..Len(orders) :
                      orders[i].order_num # num => orders'[i] = orders[i]
                /\ \A u \in Users :
                      /\ u # owner => users'[u] = users[u]
                      /\ users'[u].withdrawn = users[u].withdrawn
                /\ (wk[p][id].pc = "balance" /\ ~wk'[p][id].err)
                   => /\ orders' = orders
                      /\ users'[owner].balance
                         = users[owner].balance + wk[p][id].accrual]_vars

\* C34 witness: two credited updates for orders of different users run
\* together; the first has credited its owner, the second has written its
\* order and not yet its owner's balance.
C34_Witness ==
    \E id1, id2 \in Workers :
        LET o1 == OwnerOf(orders, wk[1][id1].num)
            o2 == OwnerOf(orders, wk[1][id2].num)
        IN /\ wk[1][id1].pc = "done" /\ wk[1][id1].wrote /\ ~wk[1][id1].err
           /\ wk[1][id2].pc = "balance"
           /\ o1 \in Users /\ o2 \in Users /\ o1 # o2
           /\ users[o1].balance = MaxAccrual
           /\ users[o2].balance = 0

\* a lookup of the current batch of poller p was answered 429 and went on to
\* cancel()
SignalRaisedInBatch(p) ==
    \E k \in 1..Len(batch[p].hdrs) :
        batch[p].hdrs[k] = <<>> \/ ~Atoi(batch[p].hdrs[k]).err

\* C35: every fetch starts its batch with a ctx that is not done; while the
\* loop waits for a batch its ctx is done only when a lookup of that batch
\* was answered 429, and a worker aborts only then.
C35_SignalPerBatch ==
    /\ [](\A p \in env.instances :
            /\ (loop[p].pc = "wait" /\ cancelled[p]) => SignalRaisedInBatch(p)
            /\ \A id \in Workers :
                  wk[p][id].got = "aborted" => SignalRaisedInBatch(p))
    /\ [][\A p \in env.instances :
            (loop[p].pc = "fetch" /\ loop'[p].pc # "fetch") => ~cancelled'[p]]_vars

\* C35 witness: an earlier batch was answered 429 with a Retry-After, and a
\* lookup of the batch after it is in its GET with the ctx not done.
C35_Witness ==
    /\ retryAfter[1] > 0
    /\ loop[1].pc = "wait"
    /\ batch[1].hdrs = <<>>
    /\ ~cancelled[1]
    /\ \E id \in Workers : wk[1][id].pc = "get"

\* C36: the loop assigns r.orders and reads r.retryAfter only while no worker
\* of the instance is running, and every running worker's id is an index of
\* r.orders.
C36_LoopAccessesWhileNoWorkerRuns ==
    /\ [](\A p \in env.instances :
            \A id \in Active(p) : id \in 1..Len(rorders[p]))
    /\ [][\A p \in env.instances :
            /\ (rorders'[p] # rorders[p] \/ (loop[p].pc = "fetch" /\ loop'[p].pc # "fetch"))
               => Active(p) = {}
            /\ (loop[p].pc = "wait" /\ loop'[p].pc # "wait")
               => (Active(p) = {} /\ retryAfter'[p] = retryAfter[p])]_vars

\* C36 witness: the workers of a batch of two have returned, one of them after
\* a 429 that set r.retryAfter, and the loop is about to replace r.orders by a
\* different list.
C36_Witness ==
    /\ loop[1].pc = "fetch"
    /\ Len(rorders[1]) = 2
    /\ \A id \in 1..2 : wk[1][id].pc = "done"
    /\ retryAfter[1] > 0
    /\ GetUnprocessedOrders(orders, WorkerNum) # rorders[1]
    /\ GetUnprocessedOrders(orders, WorkerNum) # <<>>

\* C37: a lookup answered 200 with a body that json.Unmarshal returned an error
\* for changes no order and no balance in its store calls, and when it has
\* returned the order it looked up is still NEW or PROCESSING.
C37_UnparsedBodyChangesNothing ==
    /\ [](\A p \in env.instances, id \in Workers :
            (wk[p][id].bad /\ wk[p][id].pc = "done")
            => \A i \in RowsOf(orders, rorders[p][id]) : IsPending(orders[i]))
    /\ [][\A p \in env.instances, id \in Workers :
            (wk[p][id].bad /\ StoreStep(p, id))
            => (orders' = orders /\ users' = users)]_vars

\* what PutUserOrder is to return to caller u for a number that is stored
AlreadyStoredError(u, num) ==
    IF OwnerOf(orders, num) = u THEN "ErrOrderAlreadyExists"
    ELSE "ErrOrderNumberAlreadyUsed"

\* C38: no two rows hold the same number; a PutUserOrder call that meets its
\* number in the store, at its SELECT or at its INSERT, changes nothing and
\* returns ErrOrderAlreadyExists when the row is the caller's and
\* ErrOrderNumberAlreadyUsed when it is another user's.
C38_OrderNumbersUnique ==
    /\ [](\A i, j \in 1..Len(orders) :
            orders[i].order_num = orders[j].order_num => i = j)
    /\ [][\A u \in env.users :
            /\ (/\ put[u].pc = "idle"
                /\ ret'[u] # ret[u]
                /\ checkOrderNumber(ret'[u].num)
                /\ RowsOf(orders, ret'[u].num) # {})
               => (/\ orders' = orders
                   /\ put' = put
                   /\ ret'[u].err = AlreadyStoredError(u, ret'[u].num))
            /\ (/\ put[u].pc = "insert"
                /\ put'[u].pc = "idle"
                /\ RowsOf(orders, put[u].num) # {})
               => (/\ orders' = orders
                   /\ ret'[u].err = AlreadyStoredError(u, put[u].num))]_vars

====
